---- MODULE Spec2Model ----
(***************************************************************************)
(* Retrieval-and-ranking pipeline of the conversational product search     *)
(* assistant: VectorStore.search_similar_products (filter translation,     *)
(* index query, threshold gate, collapse by product, ranking),             *)
(* SearchEngine.search (enrichment from the catalog, fallback stubs,       *)
(* response shapes) and ConversationalAgent.process_message (filter merge  *)
(* and intent routing).                                                    *)
(*                                                                         *)
(* Conventions.  A Python dict is a function whose DOMAIN is its key set;  *)
(* d.get(k) is Get(d, k, default).  An Optional value is a sequence of     *)
(* length at most one: None is <<>> and a present value v is <<v>>.        *)
(* Similarity scores are in tenths (3 is 0.3); prices and ratings are      *)
(* small integers standing for floats.                                     *)
(***************************************************************************)
EXTENDS Integers, Sequences, FiniteSets, TLC

VARIABLES
    index,          \* Pinecone index contents: view id -> metadata
    products_data,  \* SearchEngine.products_data: product id -> product
    call,           \* the last operation and its arguments
    sent,           \* query_params of the index.query calls of the last operation
    matches,        \* results['matches'] the index returned to the last query
    collapsed,      \* return value of VectorStore.search_similar_products
    response,       \* return value of SearchEngine.search
    data_file,      \* contents of data/processed_products.json
    search_engine,  \* ConversationalAgent.search_engine is not None
    merged_filters, \* merged_filters of the last process_message
    engine_calls,   \* the calls of SearchEngine.search the last operation made
    agent_response, \* return value of ConversationalAgent.process_message
    returned,       \* return value of the last VectorStore._price_bucket or upsert_products
    threads,        \* each request thread of the server: where it is and what it holds
    instances,      \* number of SearchEngine objects constructed so far
    engine_ref,     \* the SearchEngine self.search_engine refers to (0 is None)
    temp_image      \* contents of the file temp/uploaded_image.jpg, None when absent

\* What a search reads and answers
searchVars == <<index, products_data, call, sent, matches, collapsed, response,
                data_file, search_engine, merged_filters, engine_calls,
                agent_response>>

\* What the request threads of the server share
threadVars == <<threads, instances, engine_ref, temp_image>>

vars == <<searchVars, returned, threadVars>>

----------------------------------------------------------------------------
(* Bounds and program constants *)

\* largest top_k a caller passes to SearchEngine.search
MaxTopK == 2

\* largest price, in dollars, a bucket is computed for
MaxPrice == 101

\* number of request threads of the server
MaxThreads == 2

\* longest product list one indexing run is given
MaxProducts == 2

\* default of upsert_batch_size in VectorStore.__init__
DefaultUpsertBatchSize == 100

\* default of min_similarity in VectorStore.search_similar_products (0.3)
DefaultMinSimilarity == 3

\* SearchEngine.search asks the vector store for top_k * 2 products
OversampleFactor == 2

----------------------------------------------------------------------------
(* Python values *)

None == <<>>
Some(v) == <<v>>

EmptyDict == [k \in {} |-> 0]

Get(d, k, default) == IF k \in DOMAIN d THEN d[k] ELSE default

\* {**a, **b}: keys of both, b's value where both have the key
DictMerge(a, b) ==
    [k \in DOMAIN a \cup DOMAIN b |-> IF k \in DOMAIN b THEN b[k] ELSE a[k]]

Min(a, b) == IF a <= b THEN a ELSE b

\* s[:n]
Take(s, n) == SubSeq(s, 1, Min(n, Len(s)))

Digits == <<"0", "1", "2", "3", "4", "5", "6", "7", "8", "9">>

\* str(n) for the small n that occur
Str(n) == Digits[n + 1]

----------------------------------------------------------------------------
(* The catalog and the index *)

ProductIds == <<"P1", "P2">>

ViewTags == <<"A", "B", "C">>

\* The product ids of the larger catalogs
IndexableIds == <<"P1", "P2", "P3">>

TitleOf(p) == "Title " \o p

\* a product of data/processed_products.json
CatalogProduct(p) ==
    [id |-> p, title |-> TitleOf(p), category |-> "Electronics",
     price |-> Some(2), rating |-> Some(4), rating_count |-> 7,
     image_url |-> Some("img")]

\* The contents of the data file the engine is given: a product list, or no
\* file at all
DataFiles ==
    {[exists |-> FALSE, products |-> <<>>]} \cup
    {[exists |-> TRUE,
      products |-> [i \in 1..n |-> CatalogProduct(ProductIds[i])]] :
        n \in 1..Len(ProductIds)}

\* self.products_data[product['id']] = product, for every product of the
\* file in order (a later product with the same id replaces an earlier one);
\* a missing file leaves the dict empty
LoadProductsData(file) ==
    IF ~file.exists
    THEN EmptyDict
    ELSE LET ps == file.products
             last(p) == CHOOSE i \in 1..Len(ps) :
                            /\ ps[i].id = p
                            /\ \A j \in (i + 1)..Len(ps) : ps[j].id # p
         IN  [p \in {ps[i].id : i \in 1..Len(ps)} |-> ps[last(p)]]

\* PriceBucket whose boundaries are inclusive upper bounds
PriceBucketInclusive(price) ==
    IF price = None \/ price[1] <= 0 THEN -1
    ELSE IF price[1] <= 10 THEN 0
    ELSE IF price[1] <= 25 THEN 1
    ELSE IF price[1] <= 50 THEN 2
    ELSE IF price[1] <= 100 THEN 3
    ELSE 4

\* VectorStore._price_bucket
PriceBucket(price) ==
    IF price = None \/ price[1] <= 0 THEN -1
    ELSE IF price[1] < 10 THEN 0
    ELSE IF price[1] < 25 THEN 1
    ELSE IF price[1] < 50 THEN 2
    ELSE IF price[1] < 100 THEN 3
    ELSE 4

\* f"{product_id}#{tag}"
ViewId(p, tag) == p \o "#" \o tag

\* base_metadata of VectorStore._build_views_for_product
BaseMetadata(product) ==
    [product_id |-> product.id,
     view |-> "",
     title |-> product.title,
     category |-> product.category,
     price |-> IF product.price # None THEN product.price[1] ELSE 0,
     price_bucket |-> PriceBucket(product.price),
     rating |-> IF product.rating # None THEN product.rating[1] ELSE 0,
     rating_count |-> product.rating_count,
     image_url |-> IF product.image_url # None THEN product.image_url[1] ELSE ""]

\* BuildViewsForProduct that makes view C for every product
BuildViewsAlwaysC(product) ==
    LET view(tag) == [id |-> ViewId(product.id, tag),
                      metadata |-> [BaseMetadata(product) EXCEPT !.view = tag]]
    IN  <<view("A"), view("B"), view("C")>>

\* VectorStore._build_views_for_product: views A and B always, view C when
\* the product has a search_text
BuildViewsForProduct(product) ==
    LET view(tag) == [id |-> ViewId(product.id, tag),
                      metadata |-> [BaseMetadata(product) EXCEPT !.view = tag]]
    IN  <<view("A"), view("B")>> \o
        (IF product.search_text # "" THEN <<view("C")>> ELSE <<>>)

\* What the index holds for one product when the search engine starts:
\* nothing, the views of an indexing run over some version of the product,
\* or entries of another writer of the shared index whose metadata lacks a key
IndexedVariants ==
    {"absent", "priced", "unpriced", "negative", "untitled", "unkeyed"}

IndexedProduct(p, variant) ==
    [id |-> p, title |-> TitleOf(p), category |-> "Electronics",
     price |-> CASE variant = "unpriced" -> None
                 [] variant = "negative" -> Some(-1)
                 [] OTHER -> Some(2),
     rating |-> IF variant = "priced" THEN None ELSE Some(4),
     rating_count |-> 7, image_url |-> Some("img"), search_text |-> ""]

\* m without the key k
Without(m, k) == [x \in DOMAIN m \ {k} |-> m[x]]

EntriesFor(p, variant) ==
    LET views == BuildViewsForProduct(IndexedProduct(p, variant))
        meta(i) == CASE variant = "untitled" -> Without(views[i].metadata, "title")
                     [] variant = "unkeyed" -> Without(views[i].metadata, "product_id")
                     [] OTHER -> views[i].metadata
    IN  IF variant = "absent"
        THEN EmptyDict
        ELSE [id \in {views[i].id : i \in 1..Len(views)} |->
                 meta(CHOOSE i \in 1..Len(views) : views[i].id = id)]

RECURSIVE IndexOf(_, _)
IndexOf(world, n) ==
    IF n = 0 THEN EmptyDict
    ELSE DictMerge(IndexOf(world, n - 1),
                   EntriesFor(ProductIds[n], world[ProductIds[n]]))

ProductIdSet == {ProductIds[i] : i \in 1..Len(ProductIds)}

\* all_views: the views of every product of the list, in order
RECURSIVE AllViews(_)
AllViews(products) ==
    IF products = <<>> THEN <<>>
    ELSE BuildViewsForProduct(Head(products)) \o AllViews(Tail(products))

\* Number of iterations of "for i in range(0, total, batch_size)"
NumBatches(total, batch_size) == (total + batch_size - 1) \div batch_size

\* An index that stores every vector of the batch as a new entry, under a
\* primed id when the id is taken
Inserted(idx, batch) ==
    LET fresh(i) == IF batch[i].id \in DOMAIN idx
                    THEN batch[i].id \o "'" ELSE batch[i].id
    IN  [id \in DOMAIN idx \cup {fresh(i) : i \in 1..Len(batch)} |->
            IF id \in DOMAIN idx THEN idx[id]
            ELSE batch[CHOOSE i \in 1..Len(batch) : fresh(i) = id].metadata]

\* self.index.upsert(vectors=batch): every vector is stored under its id,
\* replacing the entry that had the id
Upserted(idx, batch) ==
    LET ids == {batch[i].id : i \in 1..Len(batch)}
        last(id) == CHOOSE i \in 1..Len(batch) :
                        /\ batch[i].id = id
                        /\ \A j \in (i + 1)..Len(batch) : batch[j].id # id
    IN  [id \in DOMAIN idx \cup ids |->
            IF id \in ids THEN batch[last(id)].metadata ELSE idx[id]]

\* Committed for a run that goes on with the next batch after a failed one
CommittedSkipsFailed(vectors, batch_size, fault, failing, applied) ==
    CASE fault = "embed" -> <<>>
      [] fault = "upsert" ->
             SubSeq(vectors, 1,
                    Min(Len(vectors),
                        (IF applied THEN failing ELSE failing - 1) * batch_size))
             \o SubSeq(vectors, failing * batch_size + 1, Len(vectors))
      [] OTHER -> vectors

\* The vectors the index has stored when upsert_products returns: all of them,
\* none when the embedding raised, and when the upsert of batch failing raised
\* the batches before it (and that batch too when the index applied it before
\* the error reached the client)
Committed(vectors, batch_size, fault, failing, applied) ==
    CASE fault = "embed" -> <<>>
      [] fault = "upsert" ->
             SubSeq(vectors, 1,
                    Min(Len(vectors),
                        (IF applied THEN failing ELSE failing - 1) * batch_size))
      [] OTHER -> vectors

IndexWorlds ==
    {IndexOf(w, Len(ProductIds)) : w \in [ProductIdSet -> IndexedVariants]}

----------------------------------------------------------------------------
(* The Pinecone index as the vector store uses it *)

\* Similarity scores a query can give a view: below, at and above the
\* default threshold
Scores == (DefaultMinSimilarity - 1)..(DefaultMinSimilarity + 1)

\* A metadata predicate of the index: every clause of the filter holds of the
\* entry's metadata ($eq, $gte, $lte, $in)
ClauseHolds(value, clause) ==
    /\ "$eq" \in DOMAIN clause => value = clause["$eq"]
    /\ "$gte" \in DOMAIN clause => value >= clause["$gte"]
    /\ "$lte" \in DOMAIN clause => value <= clause["$lte"]
    /\ "$in" \in DOMAIN clause =>
           \E i \in 1..Len(clause["$in"]) : value = clause["$in"][i]

Passes(metadata, filter) ==
    \A field \in DOMAIN filter :
        /\ field \in DOMAIN metadata
        /\ ClauseHolds(metadata[field], filter[field])

\* Position of a view id in a fixed enumeration of the ids, to order ties
IdRank(id) ==
    CHOOSE r \in 1..(Len(IndexableIds) * Len(ViewTags)) :
        \E i \in 1..Len(IndexableIds), j \in 1..Len(ViewTags) :
            /\ r = (i - 1) * Len(ViewTags) + j
            /\ id = ViewId(IndexableIds[i], ViewTags[j])

\* The ids of S, most similar first; equal scores in enumeration order or in
\* its reverse
RECURSIVE Ranked(_, _, _)
Ranked(S, score, rev) ==
    IF S = {} THEN <<>>
    ELSE LET before(a, b) ==
                 \/ score[a] > score[b]
                 \/ /\ score[a] = score[b]
                    /\ IF rev THEN IdRank(a) > IdRank(b) ELSE IdRank(a) < IdRank(b)
             first == CHOOSE a \in S : \A b \in S \ {a} : before(a, b)
         IN  <<first>> \o Ranked(S \ {first}, score, rev)

\* self.index.query(vector, top_k, include_metadata, filter): the top_k entries
\* that pass the filter, most similar first.  score is the similarity of the
\* query to each returned entry.
QueryAnswer(idx, S, score, rev) ==
    LET ids == Ranked(S, score, rev)
    IN  [i \in 1..Len(ids) |->
            [id |-> ids[i], score |-> score[ids[i]], metadata |-> idx[ids[i]]]]

Passing(idx, query_params) ==
    {id \in DOMAIN idx : Passes(idx[id], Get(query_params, "filter", EmptyDict))}

Returned(idx, query_params) ==
    {S \in SUBSET Passing(idx, query_params) :
        Cardinality(S) = Min(query_params.top_k,
                             Cardinality(Passing(idx, query_params)))}

----------------------------------------------------------------------------
(* VectorStore.search_similar_products *)

\* Python truthiness of a filter value that is a string
Truthy(d, k) == k \in DOMAIN d /\ d[k] # ""

\* PineconeFilter in which max_price replaces the price clause of min_price
PineconeFilterOverwrite(filters) ==
    LET category == IF Truthy(filters, "category")
                    THEN "category" :> ("$eq" :> filters["category"])
                    ELSE EmptyDict
        gte == IF "min_price" \in DOMAIN filters
               THEN "price" :> ("$gte" :> filters["min_price"])
               ELSE EmptyDict
        price == IF "max_price" \in DOMAIN filters
                 THEN "price" :> ("$lte" :> filters["max_price"])
                 ELSE gte
        rating == IF "min_rating" \in DOMAIN filters
                  THEN "rating" :> ("$gte" :> filters["min_rating"])
                  ELSE EmptyDict
        bucket == IF "price_bucket" \in DOMAIN filters
                  THEN IF "list" \in DOMAIN filters["price_bucket"]
                       THEN "price_bucket" :> ("$in" :> filters["price_bucket"]["list"])
                       ELSE "price_bucket" :> ("$eq" :> filters["price_bucket"]["int"])
                  ELSE EmptyDict
    IN  category @@ price @@ rating @@ bucket

\* pinecone_filter as built from filters
PineconeFilter(filters) ==
    LET category == IF Truthy(filters, "category")
                    THEN "category" :> ("$eq" :> filters["category"])
                    ELSE EmptyDict
        gte == IF "min_price" \in DOMAIN filters
               THEN "price" :> ("$gte" :> filters["min_price"])
               ELSE EmptyDict
        price == IF "max_price" \in DOMAIN filters
                 THEN IF "price" \in DOMAIN gte
                      THEN "price" :> (gte["price"] @@ ("$lte" :> filters["max_price"]))
                      ELSE "price" :> ("$lte" :> filters["max_price"])
                 ELSE gte
        rating == IF "min_rating" \in DOMAIN filters
                  THEN "rating" :> ("$gte" :> filters["min_rating"])
                  ELSE EmptyDict
        bucket == IF "price_bucket" \in DOMAIN filters
                  THEN IF "list" \in DOMAIN filters["price_bucket"]
                       THEN "price_bucket" :> ("$in" :> filters["price_bucket"]["list"])
                       ELSE "price_bucket" :> ("$eq" :> filters["price_bucket"]["int"])
                  ELSE EmptyDict
    IN  category @@ price @@ rating @@ bucket

\* query_params: the filter key only when pinecone_filter is not empty
QueryParams(top_k, filters) ==
    LET pf == PineconeFilter(filters)
    IN  IF DOMAIN pf # {}
        THEN [top_k |-> top_k, include_metadata |-> TRUE, filter |-> pf]
        ELSE [top_k |-> top_k, include_metadata |-> TRUE]

\* The grouping key of a match: its product_id, or a synthetic id from the
\* title when the metadata has none
GroupKey(meta) ==
    IF Truthy(meta, "product_id")
    THEN meta["product_id"]
    ELSE "title::" \o Get(meta, "title", "")

KeyIndex(best, key) ==
    IF \E i \in 1..Len(best) : best[i].key = key
    THEN CHOOSE i \in 1..Len(best) : best[i].key = key
    ELSE 0

\* CollapseStep without the similarity threshold
CollapseStepNoGate(best, m, min_similarity) ==
    LET key == GroupKey(m.metadata)
        at == KeyIndex(best, key)
        item == [key |-> key, metadata |-> m.metadata, score |-> m.score]
    IN  IF at = 0 THEN Append(best, item)
        ELSE IF m.score > best[at].score THEN [best EXCEPT ![at] = item]
        ELSE best

\* CollapseStep that keeps every view that passes the threshold
CollapseStepNoGrouping(best, m, min_similarity) ==
    IF m.score < min_similarity THEN best
    ELSE Append(best, [key |-> GroupKey(m.metadata), metadata |-> m.metadata,
                       score |-> m.score])

\* CollapseStep that replaces the kept view on an equal score too
CollapseStepKeepsLast(best, m, min_similarity) ==
    LET key == GroupKey(m.metadata)
        at == KeyIndex(best, key)
        item == [key |-> key, metadata |-> m.metadata, score |-> m.score]
    IN  IF m.score < min_similarity THEN best
        ELSE IF at = 0 THEN Append(best, item)
        ELSE IF m.score >= best[at].score THEN [best EXCEPT ![at] = item]
        ELSE best

\* One iteration of the loop over results['matches']: best_by_product, a
\* dict in insertion order, after the match m
CollapseStep(best, m, min_similarity) ==
    LET key == GroupKey(m.metadata)
        at == KeyIndex(best, key)
        item == [key |-> key, metadata |-> m.metadata, score |-> m.score]
    IN  IF m.score < min_similarity THEN best
        ELSE IF at = 0 THEN Append(best, item)
        ELSE IF m.score > best[at].score THEN [best EXCEPT ![at] = item]
        ELSE best

RECURSIVE BestByProduct(_, _, _)
BestByProduct(ms, n, min_similarity) ==
    IF n = 0 THEN <<>>
    ELSE CollapseStep(BestByProduct(ms, n - 1, min_similarity), ms[n],
                      min_similarity)

\* SortedByScore without reverse=True: lowest score first
RECURSIVE SortedByScoreAscending(_)
SortedByScoreAscending(items) ==
    IF items = <<>> THEN <<>>
    ELSE LET i == CHOOSE i \in 1..Len(items) :
                      /\ \A j \in 1..Len(items) : items[j].score >= items[i].score
                      /\ \A j \in 1..(i - 1) : items[j].score > items[i].score
             rest == [j \in 1..(Len(items) - 1) |->
                         IF j < i THEN items[j] ELSE items[j + 1]]
         IN  <<items[i]>> \o SortedByScoreAscending(rest)

\* sorted(values, key=score, reverse=True): stable, so equal scores keep
\* their order
RECURSIVE SortedByScore(_)
SortedByScore(items) ==
    IF items = <<>> THEN <<>>
    ELSE LET i == CHOOSE i \in 1..Len(items) :
                      /\ \A j \in 1..Len(items) : items[j].score <= items[i].score
                      /\ \A j \in 1..(i - 1) : items[j].score < items[i].score
             rest == [j \in 1..(Len(items) - 1) |->
                         IF j < i THEN items[j] ELSE items[j + 1]]
         IN  <<items[i]>> \o SortedByScore(rest)

\* The value search_similar_products returns for the matches the index gave
Collapse(ms, top_k, min_similarity) ==
    LET sorted == SortedByScore(BestByProduct(ms, Len(ms), min_similarity))
        top == Take(sorted, top_k)
    IN  [i \in 1..Len(top) |->
            [metadata |-> top[i].metadata, score |-> top[i].score]]

----------------------------------------------------------------------------
(* SearchEngine.search *)

\* The keys the fallback stub reads with product_meta[...]
StubKeys == {"title", "category", "price", "rating", "rating_count"}

\* FallbackProduct that copies the price and the rating of the metadata as
\* they are
FallbackProductRawPrice(product_meta, similarity_score, n) ==
    [id |-> IF Truthy(product_meta, "product_id")
            THEN product_meta["product_id"]
            ELSE "unknown_" \o Str(n),
     title |-> product_meta["title"],
     category |-> product_meta["category"],
     price |-> Some(product_meta["price"]),
     rating |-> Some(product_meta["rating"]),
     rating_count |-> product_meta["rating_count"],
     image_url |-> IF "image_url" \in DOMAIN product_meta
                   THEN Some(product_meta["image_url"]) ELSE None,
     similarity_score |-> similarity_score,
     description |-> "Product from " \o product_meta["category"] \o " category"]

\* The fallback product built from the metadata of a match; n is
\* len(enriched_results) when it is built
FallbackProduct(product_meta, similarity_score, n) ==
    [id |-> IF Truthy(product_meta, "product_id")
            THEN product_meta["product_id"]
            ELSE "unknown_" \o Str(n),
     title |-> product_meta["title"],
     category |-> product_meta["category"],
     price |-> IF product_meta["price"] > 0
               THEN Some(product_meta["price"]) ELSE None,
     rating |-> IF product_meta["rating"] > 0
                THEN Some(product_meta["rating"]) ELSE None,
     rating_count |-> product_meta["rating_count"],
     image_url |-> IF "image_url" \in DOMAIN product_meta
                   THEN Some(product_meta["image_url"]) ELSE None,
     similarity_score |-> similarity_score,
     description |-> "Product from " \o product_meta["category"] \o " category"]

\* The copy of the catalog product with the score attached, and the image_url
\* of the metadata when the product has no such key
FullProduct(catalog, product_meta, similarity_score) ==
    LET full == catalog[product_meta["product_id"]]
        withUrl == IF "image_url" \notin DOMAIN full
                      /\ Truthy(product_meta, "image_url")
                   THEN ("image_url" :> Some(product_meta["image_url"])) @@ full
                   ELSE full
    IN  ("similarity_score" :> similarity_score) @@ withUrl

InCatalog(catalog, product_meta) ==
    /\ Truthy(product_meta, "product_id")
    /\ product_meta["product_id"] \in DOMAIN catalog

\* The first key a fallback stub reads that the metadata lacks
MissingKey(product_meta) ==
    CHOOSE k \in StubKeys \ DOMAIN product_meta :
        \A j \in StubKeys \ DOMAIN product_meta :
            LET order == <<"title", "category", "price", "rating", "rating_count">>
                pos(x) == CHOOSE i \in 1..Len(order) : order[i] = x
            IN  pos(k) <= pos(j)

\* The enrichment loop: a KeyError as soon as a match outside the catalog
\* lacks a key of the stub, else one product per match
EnrichFails(catalog, similar_products, i) ==
    /\ ~InCatalog(catalog, similar_products[i].metadata)
    /\ StubKeys \ DOMAIN similar_products[i].metadata # {}

Enrich(catalog, similar_products) ==
    IF \E i \in 1..Len(similar_products) : EnrichFails(catalog, similar_products, i)
    THEN LET i == CHOOSE i \in 1..Len(similar_products) :
                      /\ EnrichFails(catalog, similar_products, i)
                      /\ \A j \in 1..(i - 1) : ~EnrichFails(catalog, similar_products, j)
         IN  [raised |-> TRUE,
              error |-> "'" \o MissingKey(similar_products[i].metadata) \o "'"]
    ELSE [raised |-> FALSE,
          value |-> [i \in 1..Len(similar_products) |->
                        IF InCatalog(catalog, similar_products[i].metadata)
                        THEN FullProduct(catalog, similar_products[i].metadata,
                                         similar_products[i].score)
                        ELSE FallbackProduct(similar_products[i].metadata,
                                             similar_products[i].score, i - 1)]]

\* The number of iterations of the enrichment loop that complete
EnrichedCount(catalog, similar_products) ==
    IF \E i \in 1..Len(similar_products) : EnrichFails(catalog, similar_products, i)
    THEN (CHOOSE i \in 1..Len(similar_products) :
              /\ EnrichFails(catalog, similar_products, i)
              /\ \A j \in 1..(i - 1) : ~EnrichFails(catalog, similar_products, j)) - 1
    ELSE Len(similar_products)

\* StoredProducts when full_product is the catalog's own dict, not a copy
StoredAliased(catalog, product_meta, similarity_score) ==
    [catalog EXCEPT ![product_meta["product_id"]] =
                        FullProduct(catalog, product_meta, similarity_score)]

\* self.products_data after one match in the catalog was enriched:
\* full_product = self.products_data[product_id].copy(), so the keys the
\* enrichment sets go to the copy and the stored product is untouched
StoredProducts(catalog, product_meta, similarity_score) ==
    catalog

\* self.products_data after the first n iterations of the enrichment loop
RECURSIVE ProductsDataAfter(_, _, _)
ProductsDataAfter(catalog, similar_products, n) ==
    IF n = 0 THEN catalog
    ELSE LET before == ProductsDataAfter(catalog, similar_products, n - 1)
             m == similar_products[n]
         IN  IF InCatalog(before, m.metadata)
             THEN StoredProducts(before, m.metadata, m.score)
             ELSE before

\* SearchBody that reports the number of results shown as total_found
SearchBodyShownCount(catalog, query, top_k, similar_products) ==
    LET enriched == Enrich(catalog, similar_products)
        final_results == Take(enriched.value, top_k)
    IN  IF similar_products = <<>>
        THEN [raised |-> FALSE,
              value |-> [query |-> query, refined_query |-> query,
                         results |-> <<>>, total_found |-> 0,
                         message |-> "No products found matching your search criteria."]]
        ELSE IF enriched.raised THEN enriched
        ELSE [raised |-> FALSE,
              value |-> [query |-> query, refined_query |-> query,
                         results |-> final_results,
                         total_found |-> Len(final_results),
                         message |-> "Found " \o Str(Len(final_results))
                                        \o " relevant products"]]

\* SearchBody without the early return for an empty list
SearchBodyNoEarlyReturn(catalog, query, top_k, similar_products) ==
    LET enriched == Enrich(catalog, similar_products)
        final_results == Take(enriched.value, top_k)
    IN  IF enriched.raised THEN enriched
        ELSE [raised |-> FALSE,
              value |-> [query |-> query, refined_query |-> query,
                         results |-> final_results,
                         total_found |-> Len(similar_products),
                         message |-> "Found " \o Str(Len(final_results))
                                        \o " relevant products"]]

\* The body of the try block of SearchEngine.search, given what the vector
\* store returned
SearchBody(catalog, query, top_k, similar_products) ==
    LET enriched == Enrich(catalog, similar_products)
        final_results == Take(enriched.value, top_k)
    IN  IF similar_products = <<>>
        THEN [raised |-> FALSE,
              value |-> [query |-> query, refined_query |-> query,
                         results |-> <<>>, total_found |-> 0,
                         message |-> "No products found matching your search criteria."]]
        ELSE IF enriched.raised THEN enriched
        ELSE [raised |-> FALSE,
              value |-> [query |-> query, refined_query |-> query,
                         results |-> final_results,
                         total_found |-> Len(similar_products),
                         message |-> "Found " \o Str(Len(final_results))
                                        \o " relevant products"]]

\* SearchResult without the except clause: the exception reaches the caller
SearchResultUncaught(catalog, query, top_k, similar_products) ==
    LET body == SearchBody(catalog, query, top_k, similar_products)
    IN  IF body.raised THEN body ELSE body.value

\* try: ... except Exception as e: the error result
SearchResult(catalog, query, top_k, similar_products) ==
    LET body == SearchBody(catalog, query, top_k, similar_products)
    IN  IF body.raised
        THEN [query |-> query, results |-> <<>>, total_found |-> 0,
              error |-> body.error,
              message |-> "Search encountered an error. Please try again."]
        ELSE body.value

----------------------------------------------------------------------------
(* Inputs *)

Queries == {"bluetooth headphones"}

\* Price bounds a caller puts in a filter
FilterPrices == {1, 3}

PriceFilters ==
    {f \in UNION {[K -> FilterPrices] : K \in SUBSET {"min_price", "max_price"}} : TRUE}

\* Optional[Dict] filters
FilterInputs == {None} \cup {Some(f) : f \in PriceFilters}

\* What can fail inside search_similar_products: the embedding of the query
\* or the index query
Faults == {"none", "embed", "query"}

\* filters or {}
OrEmpty(filters) == IF filters = None THEN EmptyDict ELSE filters[1]

----------------------------------------------------------------------------
(* ConversationalAgent.process_message *)

\* top_k of the searches the agent makes
AgentTopK == 3

\* The keyword parameters SearchEngine.search declares
SearchParameters == {"query", "filters", "top_k", "use_ai_reranking"}

\* getattr(directive, name) is set and truthy
Suggested(directive, k) ==
    /\ k \in DOMAIN directive
    /\ directive[k] # None
    /\ directive[k][1] # (IF k = "category" THEN "" ELSE 0)

\* extracted_filters: the filter attributes of the directive that are truthy
ExtractedFilters(directive) ==
    [k \in {x \in {"min_price", "max_price", "min_rating", "category"} :
               Suggested(directive, x)} |-> directive[k][1]]

\* MergedFilters in which the classifier's hint wins over the caller's value
MergedFiltersHintWins(directive, filters) ==
    DictMerge(OrEmpty(filters), ExtractedFilters(directive))

\* merged_filters = {**extracted_filters, **(filters or {})}
MergedFilters(directive, filters) ==
    DictMerge(ExtractedFilters(directive), OrEmpty(filters))

\* a or b for Optional strings
OrElse(a, b) == IF a # None /\ a[1] # "" THEN a ELSE b

\* The except clause of process_message
AgentError(error) ==
    [type |-> "error", products |-> <<>>, error |-> error,
     message |-> "I encountered an error: " \o error \o ". Please try again."]

\* The conversation result, whether the reply is the directive's, the
\* general-conversation handler's or its canned greeting
Conversation(message) ==
    [type |-> "conversation", products |-> <<>>, message |-> message]

\* "{price:.2f}" of a product raises TypeError when the price is None
FormatFails(results) ==
    \E i \in 1..Len(results) :
        "price" \in DOMAIN results[i] /\ results[i].price = None

\* _handle_product_search after the search returned results
ProductSearchResponse(query, results, fault) ==
    IF results.results # <<>> /\ FormatFails(results.results)
    THEN [type |-> "error", products |-> <<>>,
          error |-> "unsupported format string passed to NoneType.__format__",
          message |-> "I had trouble searching for products. Please try again with different keywords."]
    ELSE IF results.results # <<>> /\ fault = "generate"
    THEN [type |-> "error", products |-> <<>>, error |-> "generation failed",
          message |-> "I had trouble searching for products. Please try again with different keywords."]
    ELSE [type |-> "product_search",
          message |-> IF results.results # <<>>
                      THEN "recommendations" ELSE "no results",
          products |-> results.results,
          query_refined |-> Get(results, "refined_query", query),
          total_found |-> Get(results, "total_found", 0)]

\* _handle_image_search: the search call names a parameter search() does not
\* declare, or the image cannot be prepared when there is no description
ImageSearchResponse(image_description, kwargs) ==
    [type |-> "error", products |-> <<>>,
     error |-> CASE image_description = None -> "Unsupported image format"
                 [] kwargs \ SearchParameters # {} ->
                        "search() got an unexpected keyword argument"
                 [] OTHER -> "",
     message |-> "I had trouble analyzing your image. Please try uploading a clear product image."]

\* image_description handed to the classifier
ImageDescription(image, fault) ==
    IF image = None THEN None
    ELSE IF fault = "image" THEN Some("Product image provided")
    ELSE Some("Product Type: headphones")

----------------------------------------------------------------------------
(* The state machine *)

\* No request thread is running: the sequential callers of the engine and of
\* the agent
NoThreads ==
    /\ returned = None
    /\ threads = <<>>
    /\ instances = 0
    /\ engine_ref = 0
    /\ temp_image = None

NoRequest ==
    /\ call = [op |-> "idle"]
    /\ sent = <<>>
    /\ matches = <<>>
    /\ collapsed = <<>>
    /\ response = EmptyDict
    /\ merged_filters = None
    /\ engine_calls = <<>>
    /\ agent_response = EmptyDict

\* A SearchEngine constructed on the data file, as search_engine.py does
Init ==
    /\ index \in IndexWorlds
    /\ data_file \in DataFiles
    /\ products_data = LoadProductsData(data_file)
    /\ search_engine = TRUE
    /\ NoRequest
    /\ NoThreads

\* search_similar_products(query, top_k, filters, min_similarity): the query
\* it sends, the matches it gets and the list it returns.  An exception of the
\* embedding or of the index query is caught inside and [] is returned.
SimilarProducts(fault, ms, top_k, min_similarity) ==
    IF fault \in {"embed", "query"} THEN <<>>
    ELSE Collapse(ms, top_k, min_similarity)

VectorSearch(top_k, filters, min_similarity, fault) ==
    LET query_params == QueryParams(top_k, OrEmpty(filters))
    IN  /\ sent' = IF fault = "embed" THEN <<>> ELSE <<query_params>>
        /\ IF fault \in {"embed", "query"}
           THEN matches' = <<>>
           ELSE \E S \in Returned(index, query_params) :
                    \E score \in [S -> Scores], rev \in BOOLEAN :
                        matches' = QueryAnswer(index, S, score, rev)
        /\ collapsed' = SimilarProducts(fault, matches', top_k, min_similarity)

\* SearchEngine.search(query, filters, top_k) on the catalog, with the call
\* of search_similar_products(refined_query, top_k * 2, filters) it makes
EngineSearch(catalog, query, filters, top_k, fault) ==
    /\ VectorSearch(top_k * OversampleFactor, filters, DefaultMinSimilarity, fault)
    /\ response' = SearchResult(catalog, query, top_k, collapsed')
    /\ products_data' = ProductsDataAfter(catalog, collapsed',
                                          EnrichedCount(catalog, collapsed'))
    /\ engine_calls' = <<[query |-> query, filters |-> filters, top_k |-> top_k]>>

Search(query, filters, top_k, fault) ==
    /\ call.op = "idle"
    /\ call' = [op |-> "search", query |-> query, filters |-> filters,
                top_k |-> top_k, min_similarity |-> DefaultMinSimilarity,
                fault |-> fault]
    /\ EngineSearch(products_data, query, filters, top_k, fault)
    /\ UNCHANGED <<index, data_file, search_engine, merged_filters,
                   agent_response, returned, threadVars>>

\* A direct call of VectorStore.search_similar_products with a threshold of
\* the caller's choice
SearchSimilarProducts(query, filters, top_k, min_similarity, fault) ==
    /\ call.op = "idle"
    /\ call' = [op |-> "search_similar_products", query |-> query,
                filters |-> filters, top_k |-> top_k,
                min_similarity |-> min_similarity, fault |-> fault]
    /\ VectorSearch(top_k, filters, min_similarity, fault)
    /\ UNCHANGED <<index, products_data, response, data_file, search_engine,
                   merged_filters, engine_calls, agent_response, returned,
                   threadVars>>

NoSearch == UNCHANGED <<sent, matches, collapsed, response, engine_calls>>

\* ConversationalAgent.process_message(message, image, filters); directive
\* is what the classifier answers
ProcessMessage(message, image, filters, directive, fault) ==
    LET catalog == IF search_engine THEN products_data
                   ELSE LoadProductsData(data_file)
        image_description == ImageDescription(image, fault)
        merged == MergedFilters(directive, filters)
        intent == directive["intent"]
        refined_query == directive["refined_query"]
    IN  /\ call.op = "idle"
        /\ fault = "construct" => ~search_engine
        /\ fault = "image" => image # None
        /\ call' = [op |-> "process_message", message |-> message,
                    image |-> image, filters |-> filters,
                    directive |-> directive, fault |-> fault]
        /\ UNCHANGED <<index, data_file, returned, threadVars>>
        /\ IF fault = "construct"
           THEN /\ agent_response' = AgentError("PINECONE_API_KEY not found")
                /\ merged_filters' = None
                /\ NoSearch
                /\ UNCHANGED <<search_engine, products_data>>
           ELSE /\ search_engine' = TRUE
                /\ IF fault = "classify"
                   THEN /\ agent_response' = AgentError("classifier failed")
                        /\ merged_filters' = None
                        /\ products_data' = catalog
                        /\ NoSearch
                   ELSE /\ merged_filters' = Some(merged)
                        /\ CASE intent = "GENERAL_CONVERSATION" ->
                                  /\ agent_response' =
                                         Conversation(
                                             IF directive["reply"] # None
                                                /\ directive["reply"][1] # ""
                                             THEN directive["reply"][1]
                                             ELSE IF fault = "generate"
                                             THEN "greeting" ELSE "generated")
                                  /\ products_data' = catalog
                                  /\ NoSearch
                             [] intent = "PRODUCT_RECOMMENDATION" ->
                                  LET query == OrElse(refined_query, Some(message))[1]
                                  IN  /\ EngineSearch(catalog, query, Some(merged),
                                                      AgentTopK, fault)
                                      /\ agent_response' =
                                             ProductSearchResponse(query, response', fault)
                             [] intent = "IMAGE_SEARCH" ->
                                  /\ agent_response' =
                                         ImageSearchResponse(
                                             image_description,
                                             {"filters", "top_k", "min_similarity"})
                                  /\ products_data' = catalog
                                  /\ NoSearch
                             [] OTHER ->
                                  /\ EngineSearch(catalog, message, filters,
                                                  AgentTopK, fault)
                                  /\ agent_response' =
                                         ProductSearchResponse(message, response', fault)

\* The caller has taken the result; the process waits for the next call
Return ==
    /\ call.op # "idle"
    /\ call' = [op |-> "idle"]
    /\ sent' = <<>>
    /\ matches' = <<>>
    /\ collapsed' = <<>>
    /\ response' = EmptyDict
    /\ merged_filters' = None
    /\ engine_calls' = <<>>
    /\ agent_response' = EmptyDict
    /\ returned' = None
    /\ UNCHANGED <<index, products_data, data_file, search_engine, threadVars>>

Next ==
    \/ \E query \in Queries, filters \in FilterInputs, top_k \in 1..MaxTopK,
          fault \in Faults :
           Search(query, filters, top_k, fault)
    \/ \E query \in Queries, top_k \in 1..MaxTopK, min_similarity \in Scores,
          fault \in Faults :
           SearchSimilarProducts(query, None, top_k, min_similarity, fault)
    \/ Return

Spec == Init /\ [][Next]_vars

\* The API server: one agent whose search engine is built by the first
\* request, over an index that holds at most the views of one product
InitAgent ==
    /\ index \in {IndexOf(w, Len(ProductIds)) :
                     w \in {x \in [ProductIdSet -> IndexedVariants] :
                               \A i \in 2..Len(ProductIds) :
                                   x[ProductIds[i]] = "absent"}}
    /\ data_file \in DataFiles
    /\ products_data = EmptyDict
    /\ search_engine = FALSE
    /\ NoRequest
    /\ NoThreads

Messages == {"find headphones"}

Images == {None, Some("temp/uploaded_image.jpg")}

Intents ==
    {"GENERAL_CONVERSATION", "PRODUCT_RECOMMENDATION", "IMAGE_SEARCH", "OTHER"}

\* What the classifier can answer: a reply for a conversation, a refined
\* query for a search, and filter hints (0 is no hint)
Directives ==
    {[intent |-> i, refined_query |-> q, reply |-> r, min_price |-> lo,
      max_price |-> hi, min_rating |-> None, category |-> None] :
        i \in Intents, q \in {None, Some("wireless headphones")},
        r \in {None, Some("Hello")}, lo \in {None, Some(0), Some(1)},
        hi \in {None, Some(3)}}

UsedDirectives ==
    {d \in Directives :
        IF d["intent"] = "GENERAL_CONVERSATION"
        THEN d["refined_query"] = None
        ELSE d["reply"] = None}

\* The filters of the caller: none, or a dict with a lower price bound, a
\* category and price buckets
CallerFilters ==
    {None} \cup
    {Some(f) : f \in UNION {[K -> {3}] : K \in SUBSET {"min_price"}}} \cup
    {Some([category |-> "Toys"]),
     Some([min_price |-> 3, category |-> "Electronics"]),
     Some([price_bucket |-> [list |-> <<-1, 0>>]])}

\* At most one of the services a request uses fails
AgentFaults ==
    {"none", "embed", "query", "construct", "classify", "generate", "image"}

NextAgent ==
    \/ \E message \in Messages, image \in Images, filters \in CallerFilters,
          directive \in UsedDirectives, fault \in AgentFaults :
           ProcessMessage(message, image, filters, directive, fault)
    \/ Return

SpecAgent == InitAgent /\ [][NextAgent]_vars

\* A vector store that is connected to an empty index and has no search engine
\* or agent on top of it
InitStore ==
    /\ index = EmptyDict
    /\ data_file = [exists |-> FALSE, products |-> <<>>]
    /\ products_data = EmptyDict
    /\ search_engine = FALSE
    /\ NoRequest
    /\ NoThreads

\* Optional[float] prices: None, negative, zero and the dollars up to MaxPrice
PriceInputs == {None} \cup {Some(p) : p \in -2..MaxPrice}

\* VectorStore._price_bucket(price)
PriceBucketCall(price) ==
    /\ call.op = "idle"
    /\ call' = [op |-> "_price_bucket", price |-> price]
    /\ returned' = Some(PriceBucket(price))
    /\ UNCHANGED <<index, products_data, sent, matches, collapsed, response,
                   data_file, search_engine, merged_filters, engine_calls,
                   agent_response, threadVars>>

NextBucket ==
    \/ \E price \in PriceInputs : PriceBucketCall(price)
    \/ Return

SpecBucket == InitStore /\ [][NextBucket]_vars

\* The server process (api_server.py): one agent, made at import with
\* search_engine = None, and request threads that call it
ThreadIds == 1..MaxThreads

IdleThread == [at |-> "idle", request |-> "", built |-> 0, used |-> 0]

InitServer ==
    /\ index = EmptyDict
    /\ data_file \in DataFiles
    /\ products_data = EmptyDict
    /\ search_engine = FALSE
    /\ NoRequest
    /\ returned = None
    /\ threads = [t \in ThreadIds |-> IdleThread]
    /\ instances = 0
    /\ engine_ref = 0
    /\ temp_image = None

\* The requests that call _ensure_search_engine
ThreadRequests == {"process_message", "get_agent_info"}

ThreadFrame ==
    UNCHANGED <<index, call, sent, matches, collapsed, response, data_file,
                merged_filters, engine_calls, agent_response, returned,
                temp_image>>

\* A request arrives on thread t and enters _ensure_search_engine
BeginRequest(t, request) ==
    /\ threads[t].at = "idle"
    /\ threads' = [threads EXCEPT ![t] = [IdleThread EXCEPT !.at = "ensure",
                                                            !.request = request]]
    /\ ThreadFrame
    /\ UNCHANGED <<products_data, search_engine, instances, engine_ref>>

\* if self.search_engine is None
CheckEngine(t) ==
    /\ threads[t].at = "ensure"
    /\ threads' = [threads EXCEPT ![t].at =
                       IF engine_ref = 0 THEN "construct" ELSE "use"]
    /\ ThreadFrame
    /\ UNCHANGED <<products_data, search_engine, instances, engine_ref>>

\* SearchEngine(self.data_path): a new engine, with its own vector store
\* client and its own catalog loaded from the data file
ConstructEngine(t) ==
    /\ threads[t].at = "construct"
    /\ instances' = instances + 1
    /\ threads' = [threads EXCEPT ![t].at = "assign", ![t].built = instances']
    /\ ThreadFrame
    /\ UNCHANGED <<products_data, search_engine, engine_ref>>

\* self.search_engine = <the engine just constructed>
AssignEngine(t) ==
    /\ threads[t].at = "assign"
    /\ engine_ref' = threads[t].built
    /\ search_engine' = TRUE
    /\ products_data' = LoadProductsData(data_file)
    /\ threads' = [threads EXCEPT ![t].at = "use"]
    /\ ThreadFrame
    /\ UNCHANGED instances

\* The request works with self.search_engine (search, products_data)
UseEngine(t) ==
    /\ threads[t].at = "use"
    /\ threads' = [threads EXCEPT ![t].at = "done", ![t].used = engine_ref]
    /\ ThreadFrame
    /\ UNCHANGED <<products_data, search_engine, instances, engine_ref>>

\* The response is sent; the thread waits for the next request and the
\* engine its last request used stays on record
FinishRequest(t) ==
    /\ threads[t].at = "done"
    /\ threads' = [threads EXCEPT ![t].at = "idle", ![t].request = ""]
    /\ ThreadFrame
    /\ UNCHANGED <<products_data, search_engine, instances, engine_ref>>

NextServer ==
    \/ \E t \in ThreadIds, request \in ThreadRequests : BeginRequest(t, request)
    \/ \E t \in ThreadIds : CheckEngine(t)
    \/ \E t \in ThreadIds : ConstructEngine(t)
    \/ \E t \in ThreadIds : AssignEngine(t)
    \/ \E t \in ThreadIds : UseEngine(t)
    \/ \E t \in ThreadIds : FinishRequest(t)

SpecServer == InitServer /\ [][NextServer]_vars

\* The /api/chat route (api_server.py, chat) on the request threads of the
\* server, for requests that carry an image. Every request stores its image
\* under the one path 'temp/uploaded_image.jpg', hands the path to
\* AgentAPI.chat, and removes the file after the agent answered.
UploadedImages == {"imgA", "imgB"}

\* A thread of the route: where it is, the image its request carries and
\* the bytes _prepare_image_for_analysis read for it
IdleUpload == [at |-> "idle", image_data |-> "", image_bytes |-> None]

InitUpload ==
    /\ index = EmptyDict
    /\ data_file \in DataFiles
    /\ products_data = LoadProductsData(data_file)
    /\ search_engine = TRUE
    /\ NoRequest
    /\ returned = None
    /\ threads = [t \in ThreadIds |-> IdleUpload]
    /\ instances = 1
    /\ engine_ref = 1
    /\ temp_image = None

UploadFrame ==
    UNCHANGED <<index, products_data, call, sent, matches, collapsed, response,
                data_file, search_engine, merged_filters, engine_calls,
                agent_response, returned, instances, engine_ref>>

\* image_data = data.get('image') or data.get('imageUrl'), truthy
ReceiveUpload(t, image_data) ==
    /\ threads[t].at = "idle"
    /\ threads' = [threads EXCEPT ![t] = [IdleUpload EXCEPT !.at = "save",
                                                            !.image_data = image_data]]
    /\ UNCHANGED temp_image
    /\ UploadFrame

\* image_path = 'temp/uploaded_image.jpg'; image.save(image_path, 'JPEG')
SaveImage(t) ==
    /\ threads[t].at = "save"
    /\ temp_image' = Some(threads[t].image_data)
    /\ threads' = [threads EXCEPT ![t].at = "chat"]
    /\ UploadFrame

\* AgentAPI.chat: if image_path and os.path.exists(image_path): image =
\* image_path; without the file the agent is called with image = None
Chat(t) ==
    /\ threads[t].at = "chat"
    /\ threads' = [threads EXCEPT ![t].at =
                       IF temp_image # None THEN "prepare" ELSE "cleanup"]
    /\ UNCHANGED temp_image
    /\ UploadFrame

\* process_message: image_data = self._prepare_image_for_analysis(image),
\* which opens the path and reads it; a file that is gone by now raises, and
\* process_message goes on with the description "Product image provided"
PrepareImageForAnalysis(t) ==
    /\ threads[t].at = "prepare"
    /\ threads' = [threads EXCEPT ![t].at = "cleanup",
                                  ![t].image_bytes = temp_image]
    /\ UNCHANGED temp_image
    /\ UploadFrame

\* if image_path and os.path.exists(image_path): os.remove(image_path)
RemoveImage(t) ==
    /\ threads[t].at = "cleanup"
    /\ temp_image' = None
    /\ threads' = [threads EXCEPT ![t].at = "done"]
    /\ UploadFrame

\* return jsonify(response); the thread waits for the next request
SendResponse(t) ==
    /\ threads[t].at = "done"
    /\ threads' = [threads EXCEPT ![t].at = "idle"]
    /\ UNCHANGED temp_image
    /\ UploadFrame

NextUpload ==
    \/ \E t \in ThreadIds, image_data \in UploadedImages :
           ReceiveUpload(t, image_data)
    \/ \E t \in ThreadIds : SaveImage(t)
    \/ \E t \in ThreadIds : Chat(t)
    \/ \E t \in ThreadIds : PrepareImageForAnalysis(t)
    \/ \E t \in ThreadIds : RemoveImage(t)
    \/ \E t \in ThreadIds : SendResponse(t)

SpecUpload == InitUpload /\ [][NextUpload]_vars

\* Calls of search_similar_products with every combination of filter keys:
\* a category (possibly the empty string), price bounds, a rating bound, a
\* price bucket as an int or as a list
FilterChoices ==
    [category : {None, Some(""), Some("Electronics")},
     min_price : {None, Some(1)},
     max_price : {None, Some(3)},
     min_rating : {None, Some(4)},
     price_bucket : {None, Some([int |-> 0]), Some([list |-> <<-1, 0>>])}]

\* The filters dict with the keys the choice gives a value
FiltersOf(choice) ==
    [k \in {x \in DOMAIN choice : choice[x] # None} |-> choice[k][1]]

VectorFilters == {None} \cup {Some(FiltersOf(c)) : c \in FilterChoices}

NextFilter ==
    \/ \E query \in Queries, filters \in VectorFilters, top_k \in 1..MaxTopK,
          fault \in Faults :
           SearchSimilarProducts(query, filters, top_k, DefaultMinSimilarity, fault)
    \/ Return

\* A vector store over an index that holds at most the views of one product
SpecFilter == InitAgent /\ [][NextFilter]_vars

\* The whole pipeline: a catalog of one to three products, each either priced
\* with a search_text (three views) or without a price and without a
\* search_text (two views); the index as one indexing run over the catalog
\* leaves it; a search engine on both
PipelineProducts(p) ==
    {[IndexedProduct(p, "negative") EXCEPT !.price = Some(2),
                                           !.search_text = "headphones"],
     IndexedProduct(p, "unpriced")}

PipelineCatalogs ==
    UNION {{c \in [1..n -> UNION {PipelineProducts(IndexableIds[i]) : i \in 1..n}] :
               \A i \in 1..n : c[i].id = IndexableIds[i]} :
           n \in 1..Len(IndexableIds)}

InitPipeline ==
    /\ data_file \in {[exists |-> TRUE, products |-> c] : c \in PipelineCatalogs}
    /\ index = Upserted(EmptyDict, AllViews(data_file.products))
    /\ products_data = LoadProductsData(data_file)
    /\ search_engine = TRUE
    /\ NoRequest
    /\ NoThreads

\* The similarity of a query to an entry: below or above the threshold
PipelineScores == {DefaultMinSimilarity - 1, DefaultMinSimilarity + 1}

PipelineFilters ==
    {None, Some([min_price |-> 1]), Some([max_price |-> 3]),
     Some([min_price |-> 1, max_price |-> 3])}

\* SearchEngine.search(query, filters, top_k) for a query whose similarity to
\* every entry of the index is given: the index answers with the top_k most
\* similar entries that pass the filter
SearchScored(query, filters, top_k, similarity, rev) ==
    LET query_params == QueryParams(top_k * OversampleFactor, OrEmpty(filters))
        passing == Passing(index, query_params)
    IN  /\ call.op = "idle"
        /\ call' = [op |-> "search", query |-> query, filters |-> filters,
                    top_k |-> top_k, min_similarity |-> DefaultMinSimilarity,
                    fault |-> "none", similarity |-> similarity]
        /\ sent' = <<query_params>>
        /\ matches' = Take(QueryAnswer(index, passing, similarity, rev),
                           query_params.top_k)
        /\ collapsed' = SimilarProducts("none", matches',
                                        top_k * OversampleFactor,
                                        DefaultMinSimilarity)
        /\ response' = SearchResult(products_data, query, top_k, collapsed')
        /\ products_data' = ProductsDataAfter(products_data, collapsed',
                                  EnrichedCount(products_data, collapsed'))
        /\ engine_calls' = <<[query |-> query, filters |-> filters,
                              top_k |-> top_k]>>
        /\ UNCHANGED <<index, data_file, search_engine, merged_filters,
                       agent_response, returned, threadVars>>

NextPipeline ==
    \/ /\ call.op = "idle"
       /\ \E query \in Queries, filters \in PipelineFilters,
             top_k \in 1..AgentTopK, similarity \in [DOMAIN index -> PipelineScores],
             rev \in BOOLEAN :
              SearchScored(query, filters, top_k, similarity, rev)
    \/ Return

SpecPipeline == InitPipeline /\ [][NextPipeline]_vars

\* The products an indexing run is given: with and without a price, with and
\* without a search_text
IndexerProducts ==
    {IndexedProduct(p, v) : p \in ProductIdSet, v \in {"priced", "unpriced"}}
    \cup {[IndexedProduct(p, "priced") EXCEPT !.search_text = "headphones"] :
             p \in ProductIdSet}

ProductLists == UNION {[1..n -> IndexerProducts] : n \in 0..MaxProducts}

\* upsert_batch_size of the vector store: the default, or a small one
UpsertBatchSizes == {2, DefaultUpsertBatchSize}

\* What can fail in upsert_products: the embedding, the upsert of a batch,
\* the index statistics read after the last batch
UpsertFaults == {"none", "embed", "upsert", "stats"}

\* VectorStore.upsert_products(products) of a store with the given
\* upsert_batch_size; the call remembers the index it found
UpsertProducts(products, batch_size, fault, failing, applied) ==
    LET vectors == AllViews(products)
    IN  /\ call.op = "idle"
        /\ IF fault = "upsert"
           THEN failing \in 1..NumBatches(Len(vectors), batch_size)
           ELSE failing = 0 /\ ~applied
        /\ call' = [op |-> "upsert_products", products |-> products,
                    upsert_batch_size |-> batch_size, fault |-> fault,
                    failing |-> failing, index_before |-> index]
        /\ index' = Upserted(index, Committed(vectors, batch_size, fault,
                                              failing, applied))
        /\ returned' = Some(fault = "none")
        /\ UNCHANGED <<products_data, sent, matches, collapsed, response,
                       data_file, search_engine, merged_filters, engine_calls,
                       agent_response, threadVars>>

\* The data file setup_vector_store_from_data is given: missing, or a file
\* with one product
IndexerFiles ==
    {[exists |-> FALSE, products |-> <<>>]} \cup
    {[exists |-> TRUE, products |-> <<product>>] : product \in IndexerProducts}

\* stats.get('total_vector_count', 0): get_index_stats returns {} when
\* describe_index_stats raises
TotalVectorCount(idx, stats_fault) ==
    IF stats_fault THEN 0 ELSE Cardinality(DOMAIN idx)

\* setup_vector_store_from_data(data_file) with a store of the default batch
\* size: upsert_products(products) when the count read is 0.  fault, failing
\* and applied are those of the upsert_products it calls.
SetupVectorStore(file, stats_fault, fault, failing, applied) ==
    LET vectors == AllViews(file.products)
        upserts == file.exists /\ TotalVectorCount(index, stats_fault) = 0
    IN  /\ call.op = "idle"
        /\ ~file.exists => ~stats_fault
        /\ IF upserts /\ fault = "upsert"
           THEN failing \in 1..NumBatches(Len(vectors), DefaultUpsertBatchSize)
           ELSE failing = 0 /\ ~applied
        /\ ~upserts => fault = "none"
        /\ call' = [op |-> "setup_vector_store_from_data", file |-> file,
                    stats_fault |-> stats_fault, fault |-> fault,
                    upserts |-> upserts, index_before |-> index]
        /\ index' = IF upserts
                    THEN Upserted(index,
                                  Committed(vectors, DefaultUpsertBatchSize,
                                            fault, failing, applied))
                    ELSE index
        /\ returned' = IF upserts THEN Some(fault = "none") ELSE None
        /\ UNCHANGED <<products_data, sent, matches, collapsed, response,
                       data_file, search_engine, merged_filters, engine_calls,
                       agent_response, threadVars>>

NextIndex ==
    \/ /\ call.op = "idle"
       /\ \E products \in ProductLists, batch_size \in UpsertBatchSizes,
             fault \in UpsertFaults, failing \in 0..(3 * MaxProducts),
             applied \in BOOLEAN :
              UpsertProducts(products, batch_size, fault, failing, applied)
    \/ /\ call.op = "idle"
       /\ \E file \in IndexerFiles, stats_fault \in BOOLEAN,
             fault \in UpsertFaults, failing \in 0..1, applied \in BOOLEAN :
              SetupVectorStore(file, stats_fault, fault, failing, applied)
    \/ Return

SpecIndex == InitStore /\ [][NextIndex]_vars

----------------------------------------------------------------------------
(* Properties of the search path *)

IsSearch == call.op = "search"

IsVectorCall == call.op \in {"search", "search_similar_products"}

Threshold == call.min_similarity

\* top_k as search_similar_products received it
VectorTopK ==
    IF IsSearch THEN call.top_k * OversampleFactor ELSE call.top_k

Results == IF "results" \in DOMAIN response THEN response.results ELSE <<>>

Failed == "error" \in DOMAIN response

\* The groups (products) with a returned view at or above the threshold
SurvivingGroups ==
    {GroupKey(matches[i].metadata) :
        i \in {j \in 1..Len(matches) : matches[j].score >= Threshold}}

\* C1: every product returned scores at least min_similarity, and a product
\* whose returned views are all below min_similarity is in no result
ThresholdGate ==
    IsVectorCall =>
        /\ \A i \in 1..Len(collapsed) : collapsed[i].score >= Threshold
        /\ \A i \in 1..Len(Results) : Results[i].similarity_score >= Threshold
        /\ \A i \in 1..Len(matches) :
               GroupKey(matches[i].metadata) \notin SurvivingGroups =>
                   /\ \A j \in 1..Len(collapsed) :
                          GroupKey(collapsed[j].metadata)
                              # GroupKey(matches[i].metadata)
                   /\ \A j \in 1..Len(Results) :
                          Results[j].id # GroupKey(matches[i].metadata)

\* a search that returns a product while all views of another are below
\* the threshold
ThresholdGateWitness ==
    /\ IsSearch
    /\ Len(Results) >= 1
    /\ \E i \in 1..Len(matches) :
           GroupKey(matches[i].metadata) \notin SurvivingGroups

\* C2: the result has at most top_k entries and no product twice
CollapseCorrectness ==
    /\ IsVectorCall =>
           /\ Len(collapsed) <= VectorTopK
           /\ \A i, j \in 1..Len(collapsed) :
                  i # j => GroupKey(collapsed[i].metadata)
                               # GroupKey(collapsed[j].metadata)
    /\ IsSearch =>
           /\ Len(Results) <= call.top_k
           /\ \A i, j \in 1..Len(Results) : i # j => Results[i].id # Results[j].id

\* two views of one product pass the threshold and the product is returned
CollapseCorrectnessWitness ==
    /\ IsSearch
    /\ Len(Results) >= 1
    /\ \E i, j \in 1..Len(matches) :
           /\ i # j
           /\ matches[i].score >= Threshold
           /\ matches[j].score >= Threshold
           /\ GroupKey(matches[i].metadata) = GroupKey(matches[j].metadata)

NoMatchDropped ==
    IsSearch /\ call.fault = "none" =>
        Len(Results) = Min(call.top_k, Cardinality(SurvivingGroups))

\* C5: a returned product that is not in the catalog is the stub of its
\* match: price and rating null unless the metadata value is positive
EnrichmentFallback ==
    IsSearch /\ ~Failed =>
        \A i \in 1..Len(Results) :
            LET meta == collapsed[i].metadata
            IN  ~InCatalog(products_data, meta) =>
                    /\ Results[i].title = meta["title"]
                    /\ Results[i].category = meta["category"]
                    /\ Results[i].similarity_score = collapsed[i].score
                    /\ Results[i].price =
                           IF meta["price"] > 0 THEN Some(meta["price"]) ELSE None
                    /\ Results[i].rating =
                           IF meta["rating"] > 0 THEN Some(meta["rating"]) ELSE None

\* a stub with a null price from a negative metadata price
EnrichmentFallbackWitness ==
    /\ IsSearch
    /\ \E i \in 1..Len(Results) :
           /\ ~InCatalog(products_data, collapsed[i].metadata)
           /\ collapsed[i].metadata["price"] < 0
           /\ Results[i].price = None

\* C6: a failure of the embedding or of the index query gives a result with
\* no products and an error field
FailureSurfaced ==
    IsSearch /\ call.fault # "none" => Results = <<>> /\ Failed

\* C7: search returns a result dict, whatever fails inside it
SearchNeverRaises ==
    IsSearch =>
        {"query", "results", "total_found", "message"} \subseteq DOMAIN response

\* the enrichment of a match failed and search returned the error result
SearchNeverRaisesWitness ==
    /\ IsSearch
    /\ call.fault = "none"
    /\ Failed

\* C8: a search in which no group survives returns the no-match result,
\* which has no error field
NoMatchResult ==
    IsSearch /\ SurvivingGroups = {} =>
        response = [query |-> call.query, refined_query |-> call.query,
                    results |-> <<>>, total_found |-> 0,
                    message |-> "No products found matching your search criteria."]

\* the index returned views, all below the threshold
NoMatchWitness ==
    /\ IsSearch
    /\ call.fault = "none"
    /\ matches # <<>>
    /\ SurvivingGroups = {}
    /\ response.total_found = 0

\* C9: the price clause the index receives has its lower bound at or below
\* its upper bound, the two values of the caller swapped when needed
FilterNormalized ==
    IsSearch /\ call.fault = "none" /\ call.filters # None =>
        LET given == call.filters[1]
        IN  {"min_price", "max_price"} \subseteq DOMAIN given =>
                LET clause == sent[1].filter["price"]
                    low == Min(given["min_price"], given["max_price"])
                    high == IF given["min_price"] = low
                            THEN given["max_price"] ELSE given["min_price"]
                IN  /\ clause["$gte"] <= clause["$lte"]
                    /\ clause["$gte"] = low
                    /\ clause["$lte"] = high

\* C14: a search engine built on a missing data file has an empty catalog,
\* and each of its searches (no failing service) returns every match it
\* keeps as a stub made from the metadata of the match
MissingCatalogDegrades ==
    IsSearch /\ ~data_file.exists /\ call.fault = "none" =>
        /\ products_data = EmptyDict
        /\ ~Failed
        /\ Len(Results) = Min(call.top_k, Len(collapsed))
        /\ \A i \in 1..Len(Results) :
               /\ Results[i].similarity_score = collapsed[i].score
               /\ "description" \in DOMAIN Results[i]

\* C17: every result of search has the keys query, refined_query, results,
\* total_found and message
ResponseShape ==
    IsSearch =>
        {"query", "refined_query", "results", "total_found", "message"}
            \subseteq DOMAIN response

\* C18: the number of candidates asked of the index is top_k times an
\* oversampling factor of at least 5
Oversampling ==
    IsSearch /\ call.fault = "none" =>
        \E oversample \in 5..(5 + sent[1].top_k) :
            sent[1].top_k = call.top_k * oversample

\* The returned views of the group g that pass the threshold
GroupViews(g) ==
    {i \in 1..Len(matches) :
        GroupKey(matches[i].metadata) = g /\ matches[i].score >= Threshold}

\* The first of the highest-scoring views of g, in the order of the index
BestView(g) ==
    CHOOSE i \in GroupViews(g) :
        \A k \in GroupViews(g) :
            \/ matches[k].score < matches[i].score
            \/ matches[k].score = matches[i].score /\ i <= k

\* C19: each product the vector store returns has the score and the metadata
\* of its highest-scoring returned view, of the first such view in the
\* index's order when several tie; every surviving product is returned
\* unless top_k cut it off
CollapseKeepsBestView ==
    IsVectorCall /\ call.fault = "none" =>
        /\ \A j \in 1..Len(collapsed) :
               LET g == GroupKey(collapsed[j].metadata)
               IN  /\ g \in SurvivingGroups
                   /\ collapsed[j].score = matches[BestView(g)].score
                   /\ collapsed[j].metadata = matches[BestView(g)].metadata
        /\ Len(collapsed) = Min(VectorTopK, Cardinality(SurvivingGroups))
        /\ IsSearch /\ ~Failed =>
               \A j \in 1..Len(Results) :
                   Results[j].similarity_score
                       = matches[BestView(GroupKey(collapsed[j].metadata))].score

\* two views of a product tie above the threshold, view B came first and
\* is the one kept
CollapseKeepsBestViewWitness ==
    /\ IsVectorCall
    /\ \E i, k \in 1..Len(matches) :
           /\ i < k
           /\ matches[i].score = matches[k].score
           /\ matches[i].score >= Threshold
           /\ GroupKey(matches[i].metadata) = GroupKey(matches[k].metadata)
           /\ matches[i].metadata["view"] = "B"
           /\ \E j \in 1..Len(collapsed) :
                  collapsed[j].metadata = matches[i].metadata

\* C20: the products come highest score first, and they are the highest
\* scoring ones: a surviving product that is left out scores no higher than
\* any product returned (for search: when it did not fail)
Ranking ==
    /\ IsVectorCall /\ call.fault = "none" =>
           /\ \A i, j \in 1..Len(collapsed) :
                  i < j => collapsed[i].score >= collapsed[j].score
           /\ \A g \in SurvivingGroups :
                  (\A j \in 1..Len(collapsed) : GroupKey(collapsed[j].metadata) # g)
                      => \A j \in 1..Len(collapsed) :
                             matches[BestView(g)].score <= collapsed[j].score
    /\ IsSearch /\ ~Failed =>
           /\ \A i, j \in 1..Len(Results) :
                  i < j => Results[i].similarity_score >= Results[j].similarity_score
           /\ Len(Results) = Min(call.top_k, Cardinality(SurvivingGroups))
           /\ \A g \in SurvivingGroups :
                  (\A j \in 1..Len(Results) : GroupKey(collapsed[j].metadata) # g)
                      => \A j \in 1..Len(Results) :
                             matches[BestView(g)].score <= Results[j].similarity_score

\* top_k cut off a product that scores lower than the one returned
RankingWitness ==
    /\ IsSearch
    /\ ~Failed
    /\ Len(Results) = 1
    /\ Cardinality(SurvivingGroups) = 2
    /\ \E g \in SurvivingGroups :
           matches[BestView(g)].score < Results[1].similarity_score

Supplied(filters) ==
    {k \in DOMAIN filters : k = "category" => filters[k] # ""}

\* C21: the filter sent to the index has one clause per supplied key:
\* category $eq, price with $gte for min_price and $lte for max_price (both
\* in the one clause when both are given), rating $gte, price_bucket $eq for
\* an int and $in for a list; with no supplied key no filter is sent
FilterTranslation ==
    IsVectorCall /\ sent # <<>> =>
        LET filters == OrEmpty(call.filters)
            given == Supplied(filters)
            pf == Get(sent[1], "filter", EmptyDict)
            field(k) == IF k \in {"min_price", "max_price"} THEN "price"
                        ELSE IF k = "min_rating" THEN "rating" ELSE k
        IN  /\ "filter" \in DOMAIN sent[1] <=> given # {}
            /\ DOMAIN pf = {field(k) : k \in given}
            /\ "category" \in given =>
                   pf["category"] = ("$eq" :> filters["category"])
            /\ "price" \in DOMAIN pf =>
                   /\ DOMAIN pf["price"] =
                          {op \in {"$gte", "$lte"} :
                              (IF op = "$gte" THEN "min_price" ELSE "max_price")
                                  \in given}
                   /\ "min_price" \in given =>
                          pf["price"]["$gte"] = filters["min_price"]
                   /\ "max_price" \in given =>
                          pf["price"]["$lte"] = filters["max_price"]
            /\ "min_rating" \in given =>
                   pf["rating"] = ("$gte" :> filters["min_rating"])
            /\ "price_bucket" \in given =>
                   pf["price_bucket"] =
                       IF "list" \in DOMAIN filters["price_bucket"]
                       THEN "$in" :> filters["price_bucket"]["list"]
                       ELSE "$eq" :> filters["price_bucket"]["int"]

\* both price bounds, a rating bound and a list of buckets are sent as three
\* clauses, the price clause two-sided
FilterTranslationWitness ==
    /\ IsVectorCall
    /\ call.filters = Some([min_price |-> 1, max_price |-> 3, min_rating |-> 4,
                            price_bucket |-> [list |-> <<-1, 0>>]])
    /\ sent # <<>>
    /\ sent[1].filter["price"] = ("$gte" :> 1) @@ ("$lte" :> 3)
    /\ matches # <<>>

\* The products with an indexed view that passes the filter of the call and
\* is at least as similar to the query as the threshold asks
PassingProducts ==
    {index[id]["product_id"] :
        id \in {e \in Passing(index, sent[1]) : call.similarity[e] >= Threshold}}

\* C27: when at least top_k products have a view that passes the filter and
\* the threshold (no product having more than three views), the search
\* returns top_k results
NoUnderReturn ==
    IsSearch /\ "similarity" \in DOMAIN call =>
        (Cardinality(PassingProducts) >= call.top_k
            => Len(Results) = call.top_k)

\* C28: every product a search with a price filter returns has a price in the
\* catalog, and the price lies within the bounds of the filter
PriceFilterPricedOnly ==
    IsSearch /\ "similarity" \in DOMAIN call /\ call.filters # None =>
        \A i \in 1..Len(Results) :
            /\ Results[i].id \in DOMAIN products_data
            /\ products_data[Results[i].id].price # None
            /\ "min_price" \in DOMAIN call.filters[1] =>
                   products_data[Results[i].id].price[1] >= call.filters[1]["min_price"]
            /\ "max_price" \in DOMAIN call.filters[1] =>
                   products_data[Results[i].id].price[1] <= call.filters[1]["max_price"]

----------------------------------------------------------------------------
(* Properties of the agent *)

IsProcessMessage == call.op = "process_message"

FilterKeys == {"min_price", "max_price", "min_rating", "category"}

\* C10: merged_filters has the keys of the classifier's hints and of the
\* caller's filters; for a key of the caller it has the caller's value, for
\* any other key the classifier's
FilterMerge ==
    IsProcessMessage /\ merged_filters # None =>
        LET merged == merged_filters[1]
            caller == OrEmpty(call.filters)
            hinted == {k \in FilterKeys : Suggested(call.directive, k)}
        IN  /\ DOMAIN merged = DOMAIN caller \cup hinted
            /\ \A k \in DOMAIN caller : merged[k] = caller[k]
            /\ \A k \in hinted \ DOMAIN caller : merged[k] = call.directive[k][1]

\* classifier and caller disagree on min_price, only the classifier gives
\* max_price and only the caller a category
FilterMergeWitness ==
    /\ IsProcessMessage
    /\ merged_filters # None
    /\ call.directive["min_price"] = Some(1)
    /\ call.directive["max_price"] = Some(3)
    /\ call.filters = Some([min_price |-> 3, category |-> "Electronics"])
    /\ merged_filters[1] =
           [min_price |-> 3, max_price |-> 3, category |-> "Electronics"]

\* C11: an image search of the agent (an image, no failing service) completes:
\* the agent calls the engine's search and answers with an image_search
\* result, not with an error
ImageSearchCompletes ==
    /\ IsProcessMessage
    /\ call.directive["intent"] = "IMAGE_SEARCH"
    /\ call.image # None
    /\ call.fault = "none"
    => /\ engine_calls # <<>>
       /\ agent_response.type = "image_search"

\* C26: a GENERAL_CONVERSATION message makes no search and returns no
\* products; a PRODUCT_RECOMMENDATION makes one search, for the refined query
\* (the message when there is none) with the merged filters; every search
\* the agent makes is given the merged filters
IntentRouting ==
    IsProcessMessage /\ merged_filters # None /\ call.fault = "none" =>
        LET intent == call.directive["intent"]
        IN  /\ intent = "GENERAL_CONVERSATION" =>
                   /\ engine_calls = <<>>
                   /\ agent_response.products = <<>>
            /\ intent = "PRODUCT_RECOMMENDATION" =>
                   /\ Len(engine_calls) = 1
                   /\ engine_calls[1].query =
                          OrElse(call.directive["refined_query"],
                                 Some(call.message))[1]
            /\ \A i \in 1..Len(engine_calls) :
                   OrEmpty(engine_calls[i].filters) = merged_filters[1]

----------------------------------------------------------------------------
(* Properties of the indexer *)

IsPriceBucket == call.op = "_price_bucket"

\* C12: _price_bucket gives every price a bucket in -1..4: -1 for no price
\* or a price <= 0, and 0, 1, 2, 3, 4 for prices below 10, 25, 50, 100 and
\* from 100 on
PriceBucketing ==
    IsPriceBucket =>
        LET price == call.price
            bucket == returned[1]
        IN  /\ returned # None
            /\ bucket \in -1..4
            /\ bucket = -1 <=> (price = None \/ price[1] <= 0)
            /\ price # None =>
                   /\ bucket = 0 <=> (0 < price[1] /\ price[1] < 10)
                   /\ bucket = 1 <=> (10 <= price[1] /\ price[1] < 25)
                   /\ bucket = 2 <=> (25 <= price[1] /\ price[1] < 50)
                   /\ bucket = 3 <=> (50 <= price[1] /\ price[1] < 100)
                   /\ bucket = 4 <=> price[1] >= 100

\* the price 100 is in the top bucket
PriceBucketingWitness ==
    /\ IsPriceBucket
    /\ call.price = Some(100)
    /\ returned = Some(4)

IsUpsert == call.op = "upsert_products"

\* Every view of the products of the call was in the index, with the same
\* metadata, when the call was made
Reindexed ==
    LET views == AllViews(call.products)
    IN  /\ views # <<>>
        /\ \A i \in 1..Len(views) :
               /\ views[i].id \in DOMAIN call.index_before
               /\ call.index_before[views[i].id] = views[i].metadata

\* C13: upsert_products of products that are in the index unchanged leaves
\* the set of view ids, the vector count and the entries as they were
IdempotentIndexing ==
    IsUpsert /\ Reindexed =>
        /\ DOMAIN index = DOMAIN call.index_before
        /\ Cardinality(DOMAIN index) = Cardinality(DOMAIN call.index_before)
        /\ index = call.index_before

\* a successful second run over a product with three views
IdempotentIndexingWitness ==
    /\ IsUpsert
    /\ Reindexed
    /\ returned = Some(TRUE)
    /\ \E i \in 1..Len(call.products) : call.products[i].search_text # ""
    /\ Cardinality(DOMAIN index) >= 3

\* The products of the call have pairwise different ids
DistinctIds ==
    \A i, j \in 1..Len(call.products) :
        i # j => call.products[i].id # call.products[j].id

\* The view ids a product is to have: A and B, and C when it has a search_text
ExpectedViewIds(product) ==
    {product.id \o "#A", product.id \o "#B"}
        \cup (IF product.search_text # "" THEN {product.id \o "#C"} ELSE {})

\* The ids of the index entries that carry the product id pid
EntriesOf(pid) ==
    {id \in DOMAIN index :
        "product_id" \in DOMAIN index[id] /\ index[id]["product_id"] = pid}

\* C22: after products with distinct ids were indexed into an empty index,
\* the index holds for each product the views #A and #B, and #C exactly when
\* the product has a search_text; each view carries the product's id, its
\* own tag and the product's price bucket; N products give 2N to 3N entries
ViewDerivation ==
    IsUpsert /\ call.fault \in {"none", "stats"} /\ DistinctIds
             /\ call.index_before = EmptyDict =>
        /\ DOMAIN index =
               UNION {ExpectedViewIds(call.products[i]) : i \in 1..Len(call.products)}
        /\ \A i \in 1..Len(call.products) :
               LET product == call.products[i]
               IN  \A tag \in {"A", "B", "C"} :
                       product.id \o "#" \o tag \in DOMAIN index =>
                           LET meta == index[product.id \o "#" \o tag]
                           IN  /\ meta["product_id"] = product.id
                               /\ meta["view"] = tag
                               /\ meta["price_bucket"] =
                                      index[product.id \o "#A"]["price_bucket"]
                               /\ meta["price_bucket"] =
                                      (IF product.price = None THEN -1 ELSE 0)
        /\ 2 * Len(call.products) <= Cardinality(DOMAIN index)
        /\ Cardinality(DOMAIN index) <= 3 * Len(call.products)

\* two products, one of them with a search_text, give five entries
ViewDerivationWitness ==
    /\ IsUpsert
    /\ call.fault = "none"
    /\ DistinctIds
    /\ call.index_before = EmptyDict
    /\ Len(call.products) = 2
    /\ Cardinality(DOMAIN index) = 5

\* C23: after a successful upsert_products of products with distinct ids,
\* the entries of the index that carry a product's id are exactly the views
\* of the record just indexed
ReindexOverwrites ==
    IsUpsert /\ returned = Some(TRUE) /\ DistinctIds =>
        \A i \in 1..Len(call.products) :
            EntriesOf(call.products[i].id) = ExpectedViewIds(call.products[i])

\* The position of the last vector of the batches before the failed one, and
\* of the last vector of the failed batch
BeforeFailed == (call.failing - 1) * call.upsert_batch_size

UpToFailed == call.failing * call.upsert_batch_size

\* C24: when the upsert of batch i fails the run returns False, the vectors
\* of the batches before i are in the index, and no vector of a batch after
\* i has been written (stated for runs over products with distinct ids)
AbortWithoutRollback ==
    IsUpsert /\ call.fault = "upsert" /\ DistinctIds =>
        LET vectors == AllViews(call.products)
        IN  /\ returned = Some(FALSE)
            /\ call.failing >= 1
            /\ BeforeFailed < Len(vectors)
            /\ \A id \in DOMAIN call.index_before : id \in DOMAIN index
            /\ \A k \in 1..Len(vectors) :
                   /\ k <= BeforeFailed =>
                          /\ vectors[k].id \in DOMAIN index
                          /\ index[vectors[k].id] = vectors[k].metadata
                   /\ k > UpToFailed =>
                          IF vectors[k].id \in DOMAIN call.index_before
                          THEN index[vectors[k].id] = call.index_before[vectors[k].id]
                          ELSE vectors[k].id \notin DOMAIN index

\* the second of three batches failed: the first is in the index, the third
\* is not
AbortWithoutRollbackWitness ==
    /\ IsUpsert
    /\ call.fault = "upsert"
    /\ DistinctIds
    /\ call.upsert_batch_size = 2
    /\ call.failing = 2
    /\ call.index_before = EmptyDict
    /\ Len(AllViews(call.products)) >= 5
    /\ AllViews(call.products)[1].id \in DOMAIN index
    /\ AllViews(call.products)[5].id \notin DOMAIN index

\* C25: a run that succeeds returns the number of entries it upserted; a run
\* in which a batch fails returns a result that names the failed batch and
\* the numbers of entries upserted and not upserted
UpsertReport ==
    IsUpsert /\ call.fault \in {"none", "upsert"} /\ call.products # <<>> =>
        /\ returned # None
        /\ returned[1] \notin BOOLEAN
        /\ IF call.fault = "none"
           THEN returned[1] = Len(AllViews(call.products))
           ELSE /\ returned[1].failed_batch = call.failing
                /\ returned[1].succeeded + returned[1].failed
                       = Len(AllViews(call.products))

IsSetup == call.op = "setup_vector_store_from_data"

\* C30: setup_vector_store_from_data on an index that holds a vector calls
\* no upsert and leaves the index as it found it; it upserts only when the
\* index is empty
SetupOnlyWhenEmpty ==
    IsSetup =>
        /\ call.upserts => call.index_before = EmptyDict
        /\ call.index_before # EmptyDict => index = call.index_before

----------------------------------------------------------------------------
(* Properties of the server's request threads *)

\* C15: at most one SearchEngine is ever constructed, and all requests work
\* with the same one
InitializeOnce ==
    /\ instances <= 1
    /\ \A t, u \in ThreadIds :
           threads[t].used # 0 /\ threads[u].used # 0
               => threads[t].used = threads[u].used

\* C29: a request that uploaded an image finds its own image in the
\* temporary file from its write until the agent has read it, and the agent
\* call of the request reads the image that request uploaded
ImageIsolation ==
    \A t \in ThreadIds :
        /\ threads[t].at \in {"chat", "prepare"}
               => temp_image = Some(threads[t].image_data)
        /\ threads[t].at \in {"cleanup", "done"}
               => threads[t].image_bytes = Some(threads[t].image_data)
====